---- MODULE Spec2Model ----
(***************************************************************************)
(* Model of the AI reply filter plugin (src/plugin.py): the Gate           *)
(* (handle_user_message), the Scope Filter (should_filter_group), the      *)
(* Judgment Engine (ai_should_reply with the Decision Cache) and the Merge *)
(* Coordinator (handle_with_merge / wait_and_process /                     *)
(* process_merged_messages) running as asyncio tasks on one event loop.    *)
(*                                                                         *)
(* One action is one run of a task from one suspension point (await that   *)
(* really suspends) to the next: asyncio never interleaves tasks between   *)
(* suspension points.                                                      *)
(***************************************************************************)
EXTENDS Integers, Sequences, FiniteSets, TLC

(***************************************************************************)
(* Bounds of the model                                                     *)
(***************************************************************************)
\* number of inbound messages (one handle_user_message invocation each)
NumHandlers == 3

Handlers == 1..NumHandlers

\* number of expiry windows the clock runs through
MaxWindows == 2

\* longest classifier answer, in tokens, of the parsing specification
MaxTokens == 4

(***************************************************************************)
(* Program constants                                                       *)
(***************************************************************************)
CACHE_EXPIRE_SECONDS == 300

\* Python's None
None == "None"

\* MsgSignal members returned by the Gate
BLOCK_TRIGGER == "BLOCK_TRIGGER"
BLOCK_ALL == "BLOCK_ALL"
FORCE_TRIGGER == "FORCE_TRIGGER"

\* GROUP_FILTER_MODE literals: disabled, allow-list, deny-list
ModeDisabled == "disabled"
ModeAllowList == "allowlist"
ModeDenyList == "denylist"

(***************************************************************************)
(* Strings that the code takes apart are sequences of characters           *)
(***************************************************************************)
GroupPrefix == <<"g", "r", "o", "u", "p", "_">>
PrivatePrefix == <<"p", "r", "i", "v", "a", "t", "e", "_">>

\* str.replace(old, ""): every non-overlapping occurrence of old, scanning
\* from the left, is removed
RECURSIVE Replace(_, _)
Replace(s, old) ==
    IF Len(s) < Len(old) THEN s
    ELSE IF SubSeq(s, 1, Len(old)) = old
         THEN Replace(SubSeq(s, Len(old) + 1, Len(s)), old)
         ELSE <<Head(s)>> \o Replace(Tail(s), old)

\* the id with "group_" and then "private_" removed
WithoutPrefix(id) == Replace(Replace(id, GroupPrefix), PrivatePrefix)

(***************************************************************************)
(* Scope Filter                                                            *)
(***************************************************************************)
\* the loop over GROUP_ID_LIST: some entry equals the channel id once both
\* have lost their prefixes
IsInList(channel_id, list) ==
    \E i \in 1..Len(list) : WithoutPrefix(channel_id) = WithoutPrefix(list[i])

\* should_filter_group(channel_id) under the configuration c
should_filter_group(c, channel_id) ==
    IF c.GROUP_FILTER_MODE = ModeDisabled THEN TRUE
    ELSE IF c.GROUP_FILTER_MODE = ModeAllowList
         THEN IsInList(channel_id, c.GROUP_ID_LIST)
         ELSE IF c.GROUP_FILTER_MODE = ModeDenyList
              THEN ~IsInList(channel_id, c.GROUP_ID_LIST)
              ELSE TRUE

(***************************************************************************)
(* Configuration (AIReplyFilterConfig), read-only after load               *)
(***************************************************************************)
\* largest MESSAGE_MERGE_MAX_COUNT tried (0 = unlimited is always tried)
MaxMergeCount == 2

Id123 == <<"1", "2", "3">>
Id456 == <<"4", "5", "6">>
GroupId456 == GroupPrefix \o Id456
PrivateId1 == PrivatePrefix \o <<"1">>

\* group ids written in other ways: without prefix, and with "group_" inside
Group123 == GroupPrefix \o Id123
IdX1 == <<"x", "1">>
IdXGroup1 == <<"x">> \o GroupPrefix \o <<"1">>

DefaultConfig ==
    [ENABLE_PRIVATE |-> TRUE,
     ENABLE_GROUP |-> TRUE,
     ENABLE_COMPLETE_TAKEOVER |-> FALSE,
     GROUP_FILTER_MODE |-> ModeDisabled,
     GROUP_ID_LIST |-> <<>>,
     AUTO_USE_PRESET |-> TRUE,
     CONTEXT_MESSAGE_COUNT |-> 5,
     ENABLE_MESSAGE_MERGE |-> FALSE,
     MESSAGE_MERGE_MAX_COUNT |-> 5]

\* the scope settings tried: everything in scope, a kind switched off, and
\* the group admitted or excluded by a list written with or without prefix
ScopeSettings ==
    { <<TRUE, TRUE, ModeDisabled, <<>> >>,
      <<FALSE, TRUE, ModeAllowList, <<GroupId456>> >>,
      <<TRUE, FALSE, ModeDisabled, <<>> >>,
      <<TRUE, TRUE, ModeAllowList, <<Id123>> >>,
      <<TRUE, TRUE, ModeDenyList, <<Id123, Id456>> >> }

MakeConfig(s, takeover, merge, max_count) ==
    [DefaultConfig EXCEPT
       !.ENABLE_PRIVATE = s[1],
       !.ENABLE_GROUP = s[2],
       !.GROUP_FILTER_MODE = s[3],
       !.GROUP_ID_LIST = s[4],
       !.ENABLE_COMPLETE_TAKEOVER = takeover,
       !.ENABLE_MESSAGE_MERGE = merge,
       !.MESSAGE_MERGE_MAX_COUNT = max_count]

\* merge mode off: every message is judged on its own
GateConfigs ==
    { MakeConfig(s, takeover, FALSE, DefaultConfig.MESSAGE_MERGE_MAX_COUNT) :
        s \in ScopeSettings, takeover \in BOOLEAN }

\* merge mode on, for every threshold up to MaxMergeCount.  Nothing on the
\* merge path reads ENABLE_COMPLETE_TAKEOVER; it is switched on.
MergeConfigs ==
    { MakeConfig(s, TRUE, TRUE, n) : s \in ScopeSettings, n \in 0..MaxMergeCount }

Configs == GateConfigs \cup MergeConfigs

\* GROUP_ID_LIST values for the scope checks
ScopeLists ==
    { <<>>, <<Id123>>, <<GroupId456>>, <<Id123, Id456>>,
      <<PrivatePrefix \o Id456>>, <<IdX1>> }

\* every combination of the scope settings, merge mode on and off
ScopeConfigs ==
    { MakeConfig(<<p, g, mode, list>>, FALSE, merge, 0) :
        p \in BOOLEAN, g \in BOOLEAN,
        mode \in {ModeDisabled, ModeAllowList, ModeDenyList},
        list \in ScopeLists, merge \in BOOLEAN }

(***************************************************************************)
(* Inbound messages and the conversations they arrive in                   *)
(***************************************************************************)
\* AgentCtx of a message: channel_type, channel_id, chat_key
Channels ==
    { [channel_type |-> "private", channel_id |-> PrivateId1, chat_key |-> "qq-private_1"],
      [channel_type |-> "group", channel_id |-> GroupId456, chat_key |-> "qq-group_456"],
      [channel_type |-> "channel", channel_id |-> Id123, chat_key |-> "qq-channel_123"] }

\* conversations for the scope checks alone: every kind (a missing kind is
\* None, an unknown one "channel") and group ids in every spelling
ScopeChannels ==
    { [channel_type |-> "private", channel_id |-> PrivateId1, chat_key |-> "qq-private_1"],
      [channel_type |-> "group", channel_id |-> GroupId456, chat_key |-> "qq-group_456"],
      [channel_type |-> "group", channel_id |-> Id456, chat_key |-> "qq-456"],
      [channel_type |-> "group", channel_id |-> Group123, chat_key |-> "qq-group_123"],
      [channel_type |-> "group", channel_id |-> IdXGroup1, chat_key |-> "qq-xgroup_1"],
      [channel_type |-> "channel", channel_id |-> Id123, chat_key |-> "qq-channel_123"],
      [channel_type |-> None, channel_id |-> Id456, chat_key |-> "qq-456"] }

ChatKeys == { ch.chat_key : ch \in Channels \cup ScopeChannels }

\* ChatMessage of the h-th invocation: the second sender has no nickname, the
\* third no sender_id; odd and even messages carry two different texts
Msg(h) ==
    [sender_nickname |-> IF h = 2 THEN "" ELSE IF h % 2 = 1 THEN "alice" ELSE "bob",
     platform_userid |-> IF h % 2 = 1 THEN "u1" ELSE "u2",
     sender_id |-> IF h = 3 THEN "" ELSE IF h % 2 = 1 THEN "s1" ELSE "s2",
     content_text |-> IF h % 2 = 1 THEN "a" ELSE "b then?"]

\* Python's `x or y` on strings
Or(x, y) == IF x # "" /\ x # None THEN x ELSE y

(***************************************************************************)
(* Tasks of the event loop                                                 *)
(***************************************************************************)
\* the timer task created by the h-th invocation carries the same number
Timers == Handlers
HandlerTask(h) == <<"handler", h>>
TimerTask(t) == <<"timer", t>>
Tasks == { HandlerTask(h) : h \in Handlers } \cup { TimerTask(t) : t \in Timers }

VARIABLES
    cfg,            \* config
    now,            \* time.time()
    store,          \* plugin.store: store_key -> JSON document
    merge_tasks,    \* chat_key -> task_info
    merge_locks,    \* chat_key -> asyncio.Lock
    hpc,            \* handle_user_message invocations: where each one is
    hch,            \* ... its _ctx
    hres,           \* ... what it returned
    tpc,            \* wait_and_process tasks: where each one is
    tctx,           \* ... "try" or "except": the part of wait_and_process it is in
    tcancel,        \* ... a CancelledError is due at its next step
    tend,           \* ... how it ended
    ncancel,        \* ... number of cancel() calls that took effect on it
    asr,            \* ai_should_reply activation of each task
    flushes,        \* per timer task: the batches it detached and judged
    pushed,         \* per timer task: its push_system_message calls
    offerLog        \* per chat_key: the messages offered, in arrival order

cfgVars == <<cfg, now>>
handlerVars == <<hpc, hch, hres>>
timerVars == <<tpc, tctx, tcancel, tend, ncancel, flushes, pushed>>
mergeVars == <<merge_tasks, merge_locks, offerLog>>
vars == <<cfg, now, store, merge_tasks, merge_locks, hpc, hch, hres, tpc, tctx,
          tcancel, tend, ncancel, asr, flushes, pushed, offerLog>>

(***************************************************************************)
(* Decision Cache                                                          *)
(***************************************************************************)
\* Python values a decision can be: a JSON true, false or null
PyTrue == "True"
PyFalse == "False"

\* a test that takes everything but False for a yes
TruthyUnlessFalse(v) == v # PyFalse

\* truth value of a Python value in `if should_reply:`
Truthy(v) == v = PyTrue

\* hashlib.md5(message_text.encode()).hexdigest(): a function of the text
\* alone, taken to be collision free on the texts of the model
Md5Hex(text) == <<"md5", text>>

\* f"ai_decision_{message_hash}"
CacheKey(message_hash) == <<"ai_decision_", message_hash>>

\* json.dumps of a dict and json.loads of a stored document; a document that
\* is not JSON makes json.loads raise
JsonDumps(dict) == <<"json", dict>>
JsonValid(doc) == doc[1] = "json"
JsonLoads(doc) == doc[2]

\* store.get(store_key=cache_key): None when nothing is stored
StoreGet(st, cache_key) ==
    IF cache_key \in DOMAIN st THEN st[cache_key] ELSE <<None>>

\* store.set(store_key=cache_key, value=...)
StoreSet(st, cache_key, value) ==
    [k \in DOMAIN st \cup {cache_key} |-> IF k = cache_key THEN value ELSE st[k]]

\* a cache whose entries expire one second early
get_cached_decision_early(cached_data, t) ==
    IF cached_data = <<None>> THEN None
    ELSE IF ~JsonValid(cached_data) THEN None
         ELSE LET data == JsonLoads(cached_data) IN
              IF t - data.timestamp >= CACHE_EXPIRE_SECONDS THEN None
              ELSE data.decision

\* get_cached_decision once store.get has returned cached_data, at time t
get_cached_decision(cached_data, t) ==
    IF cached_data = <<None>> THEN None
    ELSE IF ~JsonValid(cached_data) THEN None
         ELSE LET data == JsonLoads(cached_data) IN
              IF t - data.timestamp > CACHE_EXPIRE_SECONDS THEN None
              ELSE data.decision

\* the document save_decision_to_cache writes at time t
CacheDocument(decision, t) == JsonDumps([decision |-> decision, timestamp |-> t])

(***************************************************************************)
(* Classifier output: a sequence of tokens.  "{" and "}" are braces,       *)
(* "sr:true" / "sr:false" / "sr:null" a should_reply member, "k:v" any     *)
(* other member, "text" anything that is not JSON.                         *)
(***************************************************************************)
MemberTokens == {"sr:true", "sr:false", "sr:null", "k:v"}

Positions(content, tok) == { i \in 1..Len(content) : content[i] = tok }
Min(S) == CHOOSE x \in S : \A y \in S : x <= y
Max(S) == CHOOSE x \in S : \A y \in S : x >= y

\* re.search(r"\{.*\}", content, re.DOTALL): from the first "{" to the last
\* "}" behind it; <<>> when there is no match
JsonMatch(content) ==
    LET opens == Positions(content, "{")
        closes == Positions(content, "}")
    IN  IF opens = {} THEN <<>>
        ELSE IF { j \in closes : j > Min(opens) } = {} THEN <<>>
             ELSE SubSeq(content, Min(opens), Max(closes))

\* json.loads(json_match.group()) succeeds: one object of members
MatchParses(m) ==
    /\ Len(m) >= 2
    /\ m[1] = "{"
    /\ m[Len(m)] = "}"
    /\ \A i \in 2..(Len(m) - 1) : m[i] \in MemberTokens

\* an object without the member read as a refusal
ShouldReplyFieldDefaultFalse(m) ==
    LET srs == { i \in 1..Len(m) : m[i] \in {"sr:true", "sr:false", "sr:null"} }
    IN  IF srs = {} THEN PyFalse
        ELSE IF m[Max(srs)] = "sr:true" THEN PyTrue
             ELSE IF m[Max(srs)] = "sr:false" THEN PyFalse
                  ELSE None

\* result.get("should_reply", True): the last should_reply member wins
ShouldReplyField(m) ==
    LET srs == { i \in 1..Len(m) : m[i] \in {"sr:true", "sr:false", "sr:null"} }
    IN  IF srs = {} THEN PyTrue
        ELSE IF m[Max(srs)] = "sr:true" THEN PyTrue
             ELSE IF m[Max(srs)] = "sr:false" THEN PyFalse
                  ELSE None

\* the parsing part of ai_should_reply: "raise" when json.loads raises,
\* otherwise the value of should_reply
ParseResponse(content) ==
    LET m == JsonMatch(content) IN
    IF m = <<>> THEN PyTrue
    ELSE IF MatchParses(m) THEN ShouldReplyField(m)
         ELSE "raise"

\* what the classifier answers in the model
Responses ==
    { <<"{", "sr:true", "}">>,
      <<"text", "{", "sr:false", "}">>,
      <<"{", "sr:null", "}">>,
      <<"{", "k:v", "}">>,
      <<"text">>,
      <<"{", "sr:false", "}", "text", "{", "k:v", "}">> }

(***************************************************************************)
(* asyncio.Lock: locked flag and FIFO of waiter futures                    *)
(***************************************************************************)
NewLock == [locked |-> FALSE, waiters |-> <<>>]

\* a lock that lets everybody in
CanAcquireAlways(l) == TRUE

\* acquire() succeeds without suspending
CanAcquire(l) ==
    /\ ~l.locked
    /\ \A i \in 1..Len(l.waiters) : l.waiters[i].st = "cancelled"

\* _wake_up_first(): the first waiter gets its result unless already done
WakeUpFirst(l) ==
    IF l.waiters # <<>> /\ l.waiters[1].st = "pending"
    THEN [l EXCEPT !.waiters[1].st = "done"]
    ELSE l

\* release()
Release(l) == WakeUpFirst([l EXCEPT !.locked = FALSE])

\* acquire() has to wait: a future is appended
Enqueue(l, task) ==
    [l EXCEPT !.waiters = Append(@, [task |-> task, st |-> "pending"])]

WaiterIndex(l, task) ==
    CHOOSE i \in 1..Len(l.waiters) : l.waiters[i].task = task

IsWaiter(l, task) == \E i \in 1..Len(l.waiters) : l.waiters[i].task = task

WaiterState(l, task) == l.waiters[WaiterIndex(l, task)].st

\* self._waiters.remove(fut)
RemoveWaiter(l, task) ==
    LET i == WaiterIndex(l, task) IN
    [l EXCEPT !.waiters = SubSeq(@, 1, i - 1) \o SubSeq(@, i + 1, Len(@))]

\* the woken waiter runs on: remove(fut), then self._locked = True
TakeLock(l, task) == [RemoveWaiter(l, task) EXCEPT !.locked = TRUE]

\* the waiter was cancelled: remove(fut), and wake the next one up if the
\* lock is free
AbandonLock(l, task) ==
    LET l1 == RemoveWaiter(l, task) IN
    IF ~l1.locked THEN WakeUpFirst(l1) ELSE l1

\* get_merge_lock: the lock of chat_key, created on first use
LockOf(locks, chat_key) ==
    IF chat_key \in DOMAIN locks THEN locks[chat_key] ELSE NewLock

SetLock(locks, chat_key, l) ==
    [k \in DOMAIN locks \cup {chat_key} |-> IF k = chat_key THEN l ELSE locks[k]]

(***************************************************************************)
(* Initial state: module load, nothing received yet                        *)
(***************************************************************************)
EmptyMap == [k \in {} |-> None]

NoCtx == [channel_type |-> None, channel_id |-> <<>>, chat_key |-> ""]

\* no answer of the classifier yet (an answer is a sequence of tokens)
NoResponse == <<None>>

\* ai_should_reply not called yet by the task
AsrIdle ==
    [pc |-> "idle", text |-> <<>>, key |-> "", should_reply |-> None,
     ret |-> "noret", calls |-> 0, gets |-> 0, sets |-> 0, cls |-> 0, lookups |-> 0,
     groups |-> 0, content |-> NoResponse, cache_data |-> <<None>>]

\* nothing received yet
Loaded ==
    /\ now = 0
    /\ store = EmptyMap
    /\ merge_tasks = EmptyMap
    /\ merge_locks = EmptyMap
    /\ hpc = [h \in Handlers |-> "idle"]
    /\ hch = [h \in Handlers |-> NoCtx]
    /\ hres = [h \in Handlers |-> "pending"]
    /\ tpc = [t \in Timers |-> "none"]
    /\ tctx = [t \in Timers |-> "try"]
    /\ tcancel = [t \in Timers |-> FALSE]
    /\ tend = [t \in Timers |-> "running"]
    /\ ncancel = [t \in Timers |-> 0]
    /\ asr = [c \in Tasks |-> AsrIdle]
    /\ flushes = [t \in Timers |-> <<>>]
    /\ pushed = [t \in Timers |-> <<>>]
    /\ offerLog = [k \in ChatKeys |-> <<>>]

Init ==
    /\ cfg \in Configs
    /\ Loaded

(***************************************************************************)
(* Gate: the parts of handle_user_message that do not suspend              *)
(***************************************************************************)
\* a Gate that lets a conversation of unknown kind through to the judgment
InScopeUnknownKind(c, ch) ==
    IF ch.channel_type = "private" /\ ~c.ENABLE_PRIVATE THEN FALSE
    ELSE IF ch.channel_type = "group" /\ ~c.ENABLE_GROUP THEN FALSE
    ELSE IF ch.channel_type = "group" THEN should_filter_group(c, ch.channel_id)
    ELSE TRUE

\* the scope checks at the head of handle_user_message
InScope(c, ch) ==
    IF ch.channel_type = "private" /\ ~c.ENABLE_PRIVATE THEN FALSE
    ELSE IF ch.channel_type = "group" /\ ~c.ENABLE_GROUP THEN FALSE
    ELSE IF ch.channel_type \notin {"private", "group"} THEN FALSE
    ELSE IF ch.channel_type = "group" THEN should_filter_group(c, ch.channel_id)
    ELSE TRUE

\* a Gate with the two blocking signals the wrong way round
JudgedSignalSwapped(c, should_reply) ==
    IF Truthy(should_reply) THEN FORCE_TRIGGER
    ELSE IF c.ENABLE_COMPLETE_TAKEOVER THEN BLOCK_TRIGGER
         ELSE BLOCK_ALL

\* the signal handle_user_message returns once ai_should_reply has returned
\* should_reply
JudgedSignal(c, should_reply) ==
    IF Truthy(should_reply) THEN FORCE_TRIGGER
    ELSE IF c.ENABLE_COMPLETE_TAKEOVER THEN BLOCK_ALL
         ELSE BLOCK_TRIGGER

\* a Gate that blocks when its processing raised
ExceptionSignalBlock == BLOCK_TRIGGER

\* the signal of the `except Exception` clause of handle_user_message
ExceptionSignal == FORCE_TRIGGER

\* a judgment that fails closed
FailOpenDecisionFalse == PyFalse

\* what the `except Exception` clause of ai_should_reply returns
FailOpenDecision == PyTrue

\* an offer that forces a reply when it reaches the threshold
OfferSignalForce(reached_max) ==
    IF reached_max THEN FORCE_TRIGGER ELSE BLOCK_TRIGGER

\* what handle_with_merge returns, whether or not the offer reached the
\* threshold
OfferSignal(reached_max) == BLOCK_TRIGGER

\* the text of the message as ai_should_reply receives it
MessageText(h) == << Msg(h).content_text >>

\* ai_should_reply(message_text, chat_key) entered by a task
AsrStart(a, text, key) ==
    [AsrIdle EXCEPT !.pc = "store_get", !.text = text, !.key = key,
                    !.calls = a.calls + 1, !.gets = a.gets, !.sets = a.sets,
                    !.cls = a.cls, !.lookups = a.lookups, !.groups = a.groups]

\* ai_should_reply left: the locals are gone
AsrEnd(a, pc, ret) ==
    [a EXCEPT !.pc = pc, !.ret = ret, !.should_reply = None,
              !.cache_data = <<None>>]

(***************************************************************************)
(* Merge Coordinator                                                       *)
(***************************************************************************)
\* chat_key of the conversation a timer task was created for
KeyOf(t) == hch[t].chat_key

SetMap(m, k, v) == [x \in DOMAIN m \cup {k} |-> IF x = k THEN v ELSE m[x]]
\* a `del` that leaves the entry where it is
DelMapKeeps(m, k) == m

DelMap(m, k) == [x \in DOMAIN m \ {k} |-> m[x]]

\* a line without the fall back to platform_userid
MergedLineNoFallback(msg) ==
    <<msg.sender_nickname, msg.sender_id, msg.content_text>>

\* the line of one message in process_merged_messages:
\* f"[{sender_name}({sender_id})] {content}"
MergedLine(msg) ==
    <<Or(msg.sender_nickname, msg.platform_userid),
      Or(msg.sender_id, msg.platform_userid),
      msg.content_text>>

\* merged_content: the lines of the batch joined by newlines
RECURSIVE MergedContent(_)
MergedContent(messages) ==
    IF messages = <<>> THEN <<>>
    ELSE <<MergedLine(Msg(Head(messages)))>> \o MergedContent(Tail(messages))

\* the threshold test of handle_with_merge after the append
ReachedMax(c, n) ==
    c.MESSAGE_MERGE_MAX_COUNT > 0 /\ n >= c.MESSAGE_MERGE_MAX_COUNT

\* Task.cancel() takes effect unless the task is done
CancelTakes(t) == tpc[t] # "done"

\* Task.cancel() on a task waiting for the lock cancels its pending future
CancelWaiter(l, task) ==
    IF IsWaiter(l, task) /\ WaiterState(l, task) = "pending"
    THEN [l EXCEPT !.waiters[WaiterIndex(l, task)].st = "cancelled"]
    ELSE l

\* handle_with_merge inside `async with lock`, l being the lock once
\* acquired; ends with the release of the lock
OfferLocked(h, k, l) ==
    /\ offerLog' = [offerLog EXCEPT ![k] = Append(@, h)]
    /\ IF k \in DOMAIN merge_tasks
       THEN LET task_info == merge_tasks[k]
                messages == Append(task_info.messages, h)
                t == task_info.task
                cancels == ReachedMax(cfg, Len(messages)) /\ CancelTakes(t)
            IN  /\ merge_tasks' = [merge_tasks EXCEPT ![k].messages = messages]
                /\ tcancel' = IF cancels THEN [tcancel EXCEPT ![t] = TRUE] ELSE tcancel
                /\ ncancel' = IF cancels THEN [ncancel EXCEPT ![t] = @ + 1] ELSE ncancel
                /\ merge_locks' =
                     SetLock(merge_locks, k,
                             Release(IF cancels THEN CancelWaiter(l, TimerTask(t)) ELSE l))
                /\ UNCHANGED tpc
       ELSE /\ merge_tasks' =
                 SetMap(merge_tasks, k,
                        [messages |-> <<h>>, ctx |-> hch'[h], created_at |-> now, task |-> h])
            /\ tpc' = [tpc EXCEPT ![h] = "created"]
            /\ merge_locks' = SetLock(merge_locks, k, Release(l))
            /\ UNCHANGED <<tcancel, ncancel>>
    /\ hpc' = [hpc EXCEPT ![h] = "done"]
    /\ hres' = [hres EXCEPT ![h] =
                  OfferSignal(k \in DOMAIN merge_tasks
                              /\ ReachedMax(cfg, Len(merge_tasks[k].messages) + 1))]
    /\ UNCHANGED <<tctx, tend, flushes, pushed, asr, store>>

\* handle_with_merge up to `async with lock`: run on, or wait for the lock
handle_with_merge(h, k) ==
    LET l == LockOf(merge_locks, k) IN
    IF CanAcquire(l)
    THEN OfferLocked(h, k, [l EXCEPT !.locked = TRUE])
    ELSE /\ merge_locks' = SetLock(merge_locks, k, Enqueue(l, HandlerTask(h)))
         /\ hpc' = [hpc EXCEPT ![h] = "lockwait"]
         /\ UNCHANGED <<hres, merge_tasks, offerLog, timerVars, asr, store>>

\* a flush that leaves `async with lock` before it calls ai_should_reply
ReleasedAcrossJudgment(l) == Release(l)

\* the lock of the key while process_merged_messages awaits ai_should_reply:
\* the await stands inside `async with lock`, the lock stays as it is
HeldAcrossJudgment(l) == l

\* process_merged_messages inside `async with lock` up to the call of
\* ai_should_reply; locks is merge_locks with the lock of the key acquired
FlushLocked(t, ctx, locks) ==
    LET k == KeyOf(t) IN
    IF k \notin DOMAIN merge_tasks
    THEN /\ merge_locks' = SetLock(locks, k, Release(locks[k]))
         /\ tpc' = [tpc EXCEPT ![t] = "done"]
         /\ tend' = [tend EXCEPT ![t] = "returned"]
         /\ tctx' = [tctx EXCEPT ![t] = ctx]
         /\ UNCHANGED <<merge_tasks, flushes, asr>>
    ELSE LET messages == merge_tasks[k].messages
             merged_content == MergedContent(messages)
         IN  /\ merge_tasks' = DelMap(merge_tasks, k)
             /\ flushes' = [flushes EXCEPT ![t] =
                              Append(@, [messages |-> messages, text |-> merged_content])]
             /\ asr' = [asr EXCEPT ![TimerTask(t)] = AsrStart(@, merged_content, k)]
             /\ merge_locks' = SetLock(locks, k, HeldAcrossJudgment(locks[k]))
             /\ tpc' = [tpc EXCEPT ![t] = "judging"]
             /\ tctx' = [tctx EXCEPT ![t] = ctx]
             /\ UNCHANGED tend

\* process_merged_messages entered from the try block ("try") or from the
\* CancelledError clause ("except") of wait_and_process
process_merged_messages(t, ctx, locks) ==
    LET k == KeyOf(t)
        l == LockOf(locks, k)
    IN  IF CanAcquire(l)
        THEN FlushLocked(t, ctx, SetLock(locks, k, [l EXCEPT !.locked = TRUE]))
        ELSE /\ merge_locks' = SetLock(locks, k, Enqueue(l, TimerTask(t)))
             /\ tpc' = [tpc EXCEPT ![t] = "lockwait"]
             /\ tctx' = [tctx EXCEPT ![t] = ctx]
             /\ UNCHANGED <<merge_tasks, flushes, asr, tend>>

(***************************************************************************)
(* What the caller does when ai_should_reply comes back                    *)
(***************************************************************************)
\* handle_user_message after `await ai_should_reply`: the value is turned
\* into a signal, an exception is caught by `except Exception`
GateAfterJudge(h, raised, value) ==
    /\ hpc' = [hpc EXCEPT ![h] = "done"]
    /\ hres' = [hres EXCEPT ![h] =
                  IF raised THEN ExceptionSignal ELSE JudgedSignal(cfg, value)]
    /\ UNCHANGED <<hch, timerVars, mergeVars>>

\* how wait_and_process ends when process_merged_messages raised an
\* Exception: the try block has `except Exception`, the CancelledError
\* clause has nothing around its call
EndOnException(ctx) == IF ctx = "try" THEN "logged" ELSE "exception"

\* process_merged_messages after `await ai_should_reply`: go on to the
\* emission, or leave the `async with` (an exception leaves it too)
FlushAfterJudge(t, raised, value) ==
    LET k == KeyOf(t) IN
    /\ IF ~raised /\ Truthy(value)
       THEN /\ tpc' = [tpc EXCEPT ![t] = "emitting"]
            /\ UNCHANGED <<merge_locks, tend>>
       ELSE /\ tpc' = [tpc EXCEPT ![t] = "done"]
            /\ merge_locks' = SetLock(merge_locks, k, Release(merge_locks[k]))
            /\ tend' = [tend EXCEPT ![t] =
                          IF raised THEN EndOnException(tctx[t]) ELSE "returned"]
    /\ UNCHANGED <<handlerVars, tctx, tcancel, ncancel, flushes, pushed,
                   merge_tasks, offerLog>>

\* ai_should_reply of task c is over
Finish(c, raised, value) ==
    IF c[1] = "handler"
    THEN GateAfterJudge(c[2], raised, value)
    ELSE FlushAfterJudge(c[2], raised, value)

\* ai_should_reply of task c suspends again
StillJudging == UNCHANGED <<handlerVars, timerVars, mergeVars>>

(***************************************************************************)
(* Judgment Engine: ai_should_reply, one action per suspension             *)
(***************************************************************************)
\* whether ai_should_reply consults the persona store and the history store
\* between the cache miss and the classifier call
UsesPreset(c, key) == key # "" /\ c.AUTO_USE_PRESET
UsesContext(c, key) == c.CONTEXT_MESSAGE_COUNT > 0 /\ key # ""

\* where ai_should_reply suspends next once get_channel_preset is over: in
\* the query of get_context_messages or in the classifier call
AfterPreset(c, key) == IF UsesContext(c, key) THEN "history" ELSE "classify"

\* where ai_should_reply suspends next after a cache miss: in the first
\* query of get_channel_preset, or as after it
AfterMiss(c, key) ==
    IF UsesPreset(c, key) THEN "preset_channel" ELSE AfterPreset(c, key)

\* whether a failure of store.get is caught inside get_cached_decision
\* (it is not: the await stands before the try)
StoreGetFailureCaught == FALSE

\* `await get_cached_decision(message_hash)` and, on a miss, the lookup of
\* the model group
AsrStoreGet(c) ==
    /\ asr[c].pc = "store_get"
    /\ UNCHANGED <<cfgVars, store>>
    /\ \E getFails \in BOOLEAN, groupFails \in BOOLEAN :
         LET a == [asr[c] EXCEPT !.gets = @ + 1]
             cached_data == IF getFails THEN <<None>>
                            ELSE StoreGet(store, CacheKey(Md5Hex(a.text)))
             cached_decision == get_cached_decision(cached_data, now)
         IN  IF getFails /\ ~StoreGetFailureCaught
             THEN /\ asr' = [asr EXCEPT ![c] = AsrEnd(a, "raised", "noret")]
                  /\ Finish(c, TRUE, None)
             ELSE IF cached_decision # None
             THEN /\ asr' = [asr EXCEPT ![c] = AsrEnd(a, "returned", cached_decision)]
                  /\ Finish(c, FALSE, cached_decision)
             ELSE LET b == [a EXCEPT !.groups = @ + 1] IN
                  IF groupFails
                  THEN /\ asr' = [asr EXCEPT ![c] = AsrEnd(b, "returned", FailOpenDecision)]
                       /\ Finish(c, FALSE, FailOpenDecision)
                  ELSE /\ asr' = [asr EXCEPT ![c] = [b EXCEPT !.pc = AfterMiss(cfg, b.key)]]
                       /\ StillJudging

\* get_channel_preset after `await DBChatChannel.get_or_none(...)`: with a
\* channel that has a preset_id the preset row is queried next; without
\* one, or when the query failed (caught inside), there is no persona.
\* `lookups` counts the lookups (persona, history) whose store has answered.
AsrPresetChannel(c) ==
    /\ asr[c].pc = "preset_channel"
    /\ UNCHANGED <<cfgVars, store>>
    /\ \E has_preset_id \in BOOLEAN :
         asr' = [asr EXCEPT ![c] =
                   [@ EXCEPT !.lookups = @ + 1,
                             !.pc = IF has_preset_id THEN "preset_row"
                                    ELSE AfterPreset(cfg, asr[c].key)]]
    /\ StillJudging

\* get_channel_preset after `await DBPreset.get_or_none(...)`: the row, None
\* or a failure caught inside; it shapes the prompt and nothing else
AsrPresetRow(c) ==
    /\ asr[c].pc = "preset_row"
    /\ UNCHANGED <<cfgVars, store>>
    /\ asr' = [asr EXCEPT ![c] = [@ EXCEPT !.pc = AfterPreset(cfg, asr[c].key)]]
    /\ StillJudging

\* get_context_messages after `await DBChatMessage.filter(...)` and
\* format_context_messages on its rows: a failure of the query is caught
\* inside, but a row without content_text makes `.strip()` raise in the try
\* block of ai_should_reply, which then returns True without the classifier
AsrHistory(c) ==
    /\ asr[c].pc = "history"
    /\ UNCHANGED <<cfgVars, store>>
    /\ \E format_raises \in BOOLEAN :
         LET a == [asr[c] EXCEPT !.lookups = @ + 1] IN
         IF format_raises
         THEN /\ asr' = [asr EXCEPT ![c] = AsrEnd(a, "returned", FailOpenDecision)]
              /\ Finish(c, FALSE, FailOpenDecision)
         ELSE /\ asr' = [asr EXCEPT ![c] = [a EXCEPT !.pc = "classify"]]
              /\ StillJudging

\* `await gen_openai_chat_response(...)` and the parsing of the answer, the
\* classifier answering with one of `responses` unless it fails; then
\* save_decision_to_cache up to its await: the document is built with the
\* time of this step.  The record keeps the answer the call last received.
AsrClassifyFrom(c, responses) ==
    /\ asr[c].pc = "classify"
    /\ UNCHANGED <<cfgVars, store>>
    /\ \E fails \in BOOLEAN, content \in responses :
         LET a == [asr[c] EXCEPT !.cls = @ + 1,
                                 !.content = IF fails THEN NoResponse ELSE content]
             should_reply == ParseResponse(content)
         IN  IF fails \/ should_reply = "raise"
             THEN /\ asr' = [asr EXCEPT ![c] = AsrEnd(a, "returned", FailOpenDecision)]
                  /\ Finish(c, FALSE, FailOpenDecision)
             ELSE /\ asr' = [asr EXCEPT ![c] =
                               [a EXCEPT !.pc = "store_set",
                                         !.should_reply = should_reply,
                                         !.cache_data = CacheDocument(should_reply, now)]]
                  /\ StillJudging

AsrClassify(c) == AsrClassifyFrom(c, Responses)

\* save_decision_to_cache after `await store.set(...)`, and the return
AsrStoreSet(c) ==
    /\ asr[c].pc = "store_set"
    /\ UNCHANGED cfgVars
    /\ \E fails \in BOOLEAN :
         LET a == [asr[c] EXCEPT !.sets = @ + 1] IN
         IF fails
         THEN /\ asr' = [asr EXCEPT ![c] = AsrEnd(a, "returned", FailOpenDecision)]
              /\ UNCHANGED store
              /\ Finish(c, FALSE, FailOpenDecision)
         ELSE /\ store' = StoreSet(store, CacheKey(Md5Hex(a.text)), a.cache_data)
              /\ asr' = [asr EXCEPT ![c] = AsrEnd(a, "returned", a.should_reply)]
              /\ Finish(c, FALSE, a.should_reply)

(***************************************************************************)
(* Gate: handle_user_message                                               *)
(***************************************************************************)
\* A message arrives: handle_user_message runs up to its first suspension.
\* Invocations are numbered in the order they start.
HandleUserMessageFrom(h, channels) ==
    /\ hpc[h] = "idle"
    /\ \A g \in Handlers : g < h => hpc[g] # "idle"
    /\ UNCHANGED cfgVars
    /\ \E ch \in channels :
         /\ hch' = [hch EXCEPT ![h] = ch]
         /\ IF ~InScope(cfg, ch)
            THEN /\ hpc' = [hpc EXCEPT ![h] = "done"]
                 /\ hres' = [hres EXCEPT ![h] = None]
                 /\ UNCHANGED <<timerVars, mergeVars, asr, store>>
            ELSE IF cfg.ENABLE_MESSAGE_MERGE
                 THEN handle_with_merge(h, ch.chat_key)
                 ELSE /\ asr' = [asr EXCEPT ![HandlerTask(h)] =
                                   AsrStart(@, MessageText(h), ch.chat_key)]
                      /\ hpc' = [hpc EXCEPT ![h] = "judging"]
                      /\ UNCHANGED <<hres, timerVars, mergeVars, store>>

HandleUserMessage(h) == HandleUserMessageFrom(h, Channels)

\* handle_with_merge gets the lock it waited for
OfferLockGranted(h) ==
    /\ hpc[h] = "lockwait"
    /\ WaiterState(merge_locks[hch[h].chat_key], HandlerTask(h)) = "done"
    /\ UNCHANGED <<cfgVars, hch>>
    /\ OfferLocked(h, hch[h].chat_key,
                   TakeLock(merge_locks[hch[h].chat_key], HandlerTask(h)))

(***************************************************************************)
(* Timer task: wait_and_process                                            *)
(***************************************************************************)
\* First step of the task.  A CancelledError that is already due is thrown
\* into the coroutine before its first statement: the task ends cancelled
\* and never enters the try block.
TimerStart(t) ==
    /\ tpc[t] = "created"
    /\ IF tcancel[t]
       THEN /\ tpc' = [tpc EXCEPT ![t] = "done"]
            /\ tend' = [tend EXCEPT ![t] = "cancelled"]
            /\ tcancel' = [tcancel EXCEPT ![t] = FALSE]
       ELSE /\ tpc' = [tpc EXCEPT ![t] = "sleeping"]
            /\ UNCHANGED <<tend, tcancel>>
    /\ UNCHANGED <<cfgVars, handlerVars, mergeVars, tctx, ncancel, flushes, pushed,
                   asr, store>>

\* asyncio.sleep(MESSAGE_MERGE_WAIT_TIME) is over: the try block goes on
TimerExpire(t) ==
    /\ tpc[t] = "sleeping"
    /\ ~tcancel[t]
    /\ process_merged_messages(t, "try", merge_locks)
    /\ UNCHANGED <<cfgVars, handlerVars, offerLog, tcancel, ncancel, pushed, store>>

\* the sleep is interrupted by the CancelledError: the except clause runs
TimerCancelled(t) ==
    /\ tpc[t] = "sleeping"
    /\ tcancel[t]
    /\ tcancel' = [tcancel EXCEPT ![t] = FALSE]
    /\ process_merged_messages(t, "except", merge_locks)
    /\ UNCHANGED <<cfgVars, handlerVars, offerLog, ncancel, pushed, store>>

\* process_merged_messages gets the lock it waited for
FlushLockGranted(t) ==
    /\ tpc[t] = "lockwait"
    /\ ~tcancel[t]
    /\ WaiterState(merge_locks[KeyOf(t)], TimerTask(t)) = "done"
    /\ FlushLocked(t, tctx[t],
                   SetLock(merge_locks, KeyOf(t),
                           TakeLock(merge_locks[KeyOf(t)], TimerTask(t))))
    /\ UNCHANGED <<cfgVars, handlerVars, offerLog, tcancel, ncancel, pushed, store>>

\* The task is cancelled while process_merged_messages waits for the lock:
\* acquire() raises CancelledError.  From the try block it is caught by the
\* CancelledError clause, which calls process_merged_messages again; from
\* that clause it ends the task.
FlushLockCancelled(t) ==
    /\ tpc[t] = "lockwait"
    /\ tcancel[t]
    /\ tcancel' = [tcancel EXCEPT ![t] = FALSE]
    /\ LET k == KeyOf(t)
           locks == SetLock(merge_locks, k, AbandonLock(merge_locks[k], TimerTask(t)))
       IN  IF tctx[t] = "try"
           THEN process_merged_messages(t, "except", locks)
           ELSE /\ merge_locks' = locks
                /\ tpc' = [tpc EXCEPT ![t] = "done"]
                /\ tend' = [tend EXCEPT ![t] = "cancelled"]
                /\ UNCHANGED <<merge_tasks, flushes, asr, tctx>>
    /\ UNCHANGED <<cfgVars, handlerVars, offerLog, ncancel, pushed, store>>

\* `await message_service.push_system_message(...)`: the call is made (if
\* it fails, that is caught and logged); then process_merged_messages and
\* the task end
TimerEmit(t) ==
    /\ tpc[t] = "emitting"
    /\ LET flushed == flushes[t][Len(flushes[t])] IN
       pushed' = [pushed EXCEPT ![t] =
                    Append(@, [chat_key |-> KeyOf(t),
                               count |-> Len(flushed.messages),
                               agent_messages |-> flushed.text,
                               trigger_agent |-> TRUE])]
    /\ tpc' = [tpc EXCEPT ![t] = "done"]
    /\ tend' = [tend EXCEPT ![t] = "returned"]
    /\ merge_locks' = SetLock(merge_locks, KeyOf(t), Release(merge_locks[KeyOf(t)]))
    /\ UNCHANGED <<cfgVars, handlerVars, merge_tasks, offerLog, tctx, tcancel, ncancel,
                   flushes, asr, store>>

(***************************************************************************)
(* Specification                                                           *)
(***************************************************************************)
Next ==
    \/ \E h \in Handlers : HandleUserMessage(h)
    \/ \E h \in Handlers : OfferLockGranted(h)
    \/ \E t \in Timers : TimerStart(t)
    \/ \E t \in Timers : TimerExpire(t)
    \/ \E t \in Timers : TimerCancelled(t)
    \/ \E t \in Timers : FlushLockGranted(t)
    \/ \E t \in Timers : FlushLockCancelled(t)
    \/ \E t \in Timers : TimerEmit(t)
    \/ \E c \in Tasks : AsrStoreGet(c)
    \/ \E c \in Tasks : AsrPresetChannel(c)
    \/ \E c \in Tasks : AsrPresetRow(c)
    \/ \E c \in Tasks : AsrHistory(c)
    \/ \E c \in Tasks : AsrClassify(c)
    \/ \E c \in Tasks : AsrStoreSet(c)

Spec == Init /\ [][Next]_vars

(***************************************************************************)
(* The Decision Cache over time: messages judged one by one (merge mode    *)
(* off, everything in scope) while the clock advances                      *)
(***************************************************************************)
\* the instants the clock shows: the start of each window, and the last
\* second at which an entry written at that start is still fresh
Instants ==
    UNION { { w * (CACHE_EXPIRE_SECONDS + 1),
              w * (CACHE_EXPIRE_SECONDS + 1) + CACHE_EXPIRE_SECONDS } :
            w \in 0..(MaxWindows - 1) }

\* time.time() has moved on
Tick ==
    /\ \E i \in Instants : i > now /\ now' = i
    /\ UNCHANGED <<cfg, store, asr, handlerVars, timerVars, mergeVars>>

CacheConfigs ==
    { c \in GateConfigs :
        /\ c.ENABLE_PRIVATE
        /\ c.ENABLE_GROUP
        /\ c.GROUP_FILTER_MODE = ModeDisabled
        /\ ~c.ENABLE_COMPLETE_TAKEOVER }

CacheInit ==
    /\ cfg \in CacheConfigs
    /\ Loaded

CacheNext ==
    \/ \E h \in Handlers : HandleUserMessage(h)
    \/ \E c \in Tasks : AsrStoreGet(c)
    \/ \E c \in Tasks : AsrPresetChannel(c)
    \/ \E c \in Tasks : AsrPresetRow(c)
    \/ \E c \in Tasks : AsrHistory(c)
    \/ \E c \in Tasks : AsrClassify(c)
    \/ \E c \in Tasks : AsrStoreSet(c)
    \/ Tick

CacheSpec == CacheInit /\ [][CacheNext]_vars

(***************************************************************************)
(* The scope checks on their own: messages of every kind and spelling of   *)
(* id arrive under every scope setting; nothing else runs                  *)
(***************************************************************************)
ScopeInit ==
    /\ cfg \in ScopeConfigs
    /\ Loaded

ScopeArrival(h) == HandleUserMessageFrom(h, ScopeChannels)

ScopeNext == \E h \in Handlers : ScopeArrival(h)

ScopeSpec == ScopeInit /\ [][ScopeNext]_vars

(***************************************************************************)
(* The parsing of the classifier's answer on its own: one message is       *)
(* judged (merge mode off, in scope) and the classifier answers with any   *)
(* sequence of tokens up to MaxTokens                                      *)
(***************************************************************************)
Tokens == {"{", "}", "text"} \cup MemberTokens

\* response.response_content.strip(): every answer of at most MaxTokens tokens
Contents == UNION { [1..n -> Tokens] : n \in 0..MaxTokens }

ParseInit ==
    /\ cfg \in CacheConfigs
    /\ Loaded

ParseArrival == HandleUserMessage(Min(Handlers))

ParseClassify(c) == AsrClassifyFrom(c, Contents)

ParseNext ==
    \/ ParseArrival
    \/ \E c \in Tasks : AsrStoreGet(c)
    \/ \E c \in Tasks : AsrPresetChannel(c)
    \/ \E c \in Tasks : AsrPresetRow(c)
    \/ \E c \in Tasks : AsrHistory(c)
    \/ \E c \in Tasks : ParseClassify(c)
    \/ \E c \in Tasks : AsrStoreSet(c)

ParseSpec == ParseInit /\ [][ParseNext]_vars

(***************************************************************************)
(* Properties of the merge path                                            *)
(***************************************************************************)
MergeOn == cfg.ENABLE_MESSAGE_MERGE
MaxCount == cfg.MESSAGE_MERGE_MAX_COUNT

\* the offer of handler h opened a batch (and created the timer task h)
OpenedBatch(h) == tpc[h] # "none"

IndexIn(log, h) == CHOOSE i \in 1..Len(log) : log[i] = h

\* the offers of the wait window of timer task t: from the offer that opened
\* its batch up to the next offer of the conversation that opened one
WindowOf(t) ==
    LET log == offerLog[KeyOf(t)]
        i == IndexIn(log, t)
        later == { j \in (i + 1)..Len(log) : OpenedBatch(log[j]) }
        last == IF later = {} THEN Len(log) ELSE Min(later) - 1
    IN  SubSeq(log, i, last)

\* the line the transcript is to carry for the message of handler h: the
\* sender's name and id, each falling back to the platform user id
ExpectedLine(h) ==
    <<IF Msg(h).sender_nickname # "" THEN Msg(h).sender_nickname
      ELSE Msg(h).platform_userid,
      IF Msg(h).sender_id # "" THEN Msg(h).sender_id ELSE Msg(h).platform_userid,
      Msg(h).content_text>>

ExpectedTranscript(messages) ==
    [i \in 1..Len(messages) |-> ExpectedLine(messages[i])]

\* C1: a timer task that an offer cancelled because the batch reached
\* MESSAGE_MERGE_MAX_COUNT has, once it is over, flushed that batch exactly
\* once: the batch is neither dropped nor flushed twice.
C1_CancelledBatchFlushedOnce ==
    \A t \in Timers :
        (ncancel[t] > 0 /\ tpc[t] = "done") => Len(flushes[t]) = 1

\* C2: when exactly MESSAGE_MERGE_MAX_COUNT (>= 1) messages were offered to
\* an idle conversation, all within the wait window of the first, the batch
\* is never flushed twice and, once its timer task is over, it was flushed
\* once with all the messages in arrival order.
C2_ThresholdFlush ==
    \A k \in ChatKeys :
        LET log == offerLog[k] IN
        ( /\ MergeOn
          /\ MaxCount >= 1
          /\ Len(log) = MaxCount
          /\ \A i \in 2..Len(log) : ~OpenedBatch(log[i]) )
        => LET t == log[1] IN
           /\ Len(flushes[t]) <= 1
           /\ tpc[t] = "done" =>
                /\ Len(flushes[t]) = 1
                /\ flushes[t][1].messages = log

\* C3: a timer task that ran out without being cancelled, the offers of its
\* window being fewer than MESSAGE_MERGE_MAX_COUNT (or the count unlimited),
\* made exactly one flush and one ai_should_reply call, on a transcript
\* with one line per message of the window, tagged with its sender, in
\* arrival order.
C3_TimeoutFlush ==
    \A t \in Timers :
        ( /\ MergeOn
          /\ tpc[t] = "done"
          /\ ncancel[t] = 0
          /\ (MaxCount = 0 \/ Len(WindowOf(t)) < MaxCount) )
        => /\ Len(flushes[t]) = 1
           /\ flushes[t][1].messages = WindowOf(t)
           /\ flushes[t][1].text = ExpectedTranscript(WindowOf(t))
           /\ asr[TimerTask(t)].calls = 1
           /\ asr[TimerTask(t)].text = ExpectedTranscript(WindowOf(t))

\* three messages, among them one without nickname and one without
\* sender_id, flushed together when the timer ran out
C3_Witness ==
    \E t \in Timers :
        /\ MergeOn
        /\ MaxCount = 0
        /\ tpc[t] = "done"
        /\ ncancel[t] = 0
        /\ Len(flushes[t]) = 1
        /\ Len(flushes[t][1].messages) = 3
        /\ asr[TimerTask(t)].calls = 1

(***************************************************************************)
(* Properties of the Gate                                                  *)
(***************************************************************************)
\* the Scope Filter's verdict: unknown kind, kind switched off, or group
\* excluded by the list
OutOfScope(c, ch) ==
    \/ ch.channel_type \notin {"private", "group"}
    \/ ch.channel_type = "private" /\ ~c.ENABLE_PRIVATE
    \/ ch.channel_type = "group" /\ ~c.ENABLE_GROUP
    \/ ch.channel_type = "group" /\ ~should_filter_group(c, ch.channel_id)

\* C4: with merge mode off, the signal of a handler whose judgment came back
\* follows from the judgment and the takeover flag alone: true gives
\* FORCE_TRIGGER, false gives BLOCK_ALL under takeover and BLOCK_TRIGGER
\* otherwise; an in-scope message never gets None.
C4_GateSignal ==
    \A h \in Handlers :
        /\ (~MergeOn /\ hpc[h] = "done" /\ asr[HandlerTask(h)].pc = "returned")
           => LET judgment == asr[HandlerTask(h)].ret IN
              /\ judgment = PyTrue => hres[h] = FORCE_TRIGGER
              /\ (judgment = PyFalse /\ cfg.ENABLE_COMPLETE_TAKEOVER)
                   => hres[h] = BLOCK_ALL
              /\ (judgment = PyFalse /\ ~cfg.ENABLE_COMPLETE_TAKEOVER)
                   => hres[h] = BLOCK_TRIGGER
        /\ (~MergeOn /\ hpc[h] = "done" /\ ~OutOfScope(cfg, hch[h]))
           => hres[h] # None

\* a message judged false under complete takeover
C4_Witness ==
    \E h \in Handlers :
        /\ ~MergeOn
        /\ cfg.ENABLE_COMPLETE_TAKEOVER
        /\ hpc[h] = "done"
        /\ asr[HandlerTask(h)].pc = "returned"
        /\ asr[HandlerTask(h)].ret = PyFalse
        /\ hres[h] = BLOCK_ALL

\* C5: the step in which handle_user_message takes an out-of-scope message
\* ends it with None and changes nothing else: no judgment is started, the
\* Decision Cache is neither read nor written, and batches, timer tasks and
\* locks stay as they are, merge mode on or off.
C5_OutOfScopeAllows ==
    [][\A h \in Handlers :
         (hpc[h] = "idle" /\ hpc'[h] # "idle" /\ OutOfScope(cfg, hch'[h]))
         => /\ hpc'[h] = "done"
            /\ hres'[h] = None
            /\ UNCHANGED <<store, asr, merge_tasks, merge_locks, offerLog, timerVars>>]_vars

\* an out-of-scope message let through while a batch of another
\* conversation is open
C5_Witness ==
    \E h \in Handlers :
        /\ hpc[h] = "done"
        /\ OutOfScope(cfg, hch[h])
        /\ hres[h] = None
        /\ MergeOn
        /\ DOMAIN merge_tasks # {}

\* C6: with merge mode on, every in-scope message that was handled got
\* BLOCK_TRIGGER, whether it opened a batch, joined one or reached the
\* threshold; no handler called ai_should_reply, and a timer task called it
\* once per flush.
C6_MergeAbsorbs ==
    MergeOn =>
        /\ \A h \in Handlers :
               /\ (hpc[h] = "done" /\ ~OutOfScope(cfg, hch[h]))
                    => hres[h] = BLOCK_TRIGGER
               /\ asr[HandlerTask(h)].calls = 0
        /\ \A t \in Timers : asr[TimerTask(t)].calls = Len(flushes[t])

\* an offer reached the threshold and cancelled the timer task, another
\* one opened the batch
C6_Witness ==
    /\ MergeOn
    /\ \E t \in Timers : ncancel[t] > 0
    /\ \E h \in Handlers : hpc[h] = "done" /\ OpenedBatch(h) /\ hres[h] = BLOCK_TRIGGER
    /\ \E h \in Handlers : hpc[h] = "done" /\ ~OpenedBatch(h) /\ hres[h] = BLOCK_TRIGGER

(***************************************************************************)
(* Properties of the Judgment Engine                                       *)
(***************************************************************************)
\* C7: ai_should_reply never raises to its caller, whichever collaborator
\* fails, the read of the store included.
C7_NeverRaises ==
    \A c \in Tasks : asr[c].pc # "raised"

\* C8: the step in which ai_should_reply comes back from the classifier
\* call without going on to the cache write (the classifier raised, or its
\* answer did not parse) returns True and leaves the store as it was.
C8_ClassifierFailOpen ==
    [][\A c \in Tasks :
         (asr[c].pc = "classify" /\ asr'[c].pc = "returned")
         => /\ asr'[c].ret = PyTrue
            /\ asr'[c].sets = 0
            /\ store' = store]_vars

\* a call that reached the classifier, wrote nothing and returned True
\* while the store holds nothing
C8_Witness ==
    \E c \in Tasks :
        /\ asr[c].pc = "returned"
        /\ asr[c].cls = 1
        /\ asr[c].sets = 0
        /\ asr[c].ret = PyTrue
        /\ store = EmptyMap

\* C9: a handler whose judgment raised has ended, and with FORCE_TRIGGER.
C9_GateFailOpen ==
    \A h \in Handlers :
        asr[HandlerTask(h)].pc = "raised"
        => /\ hpc[h] = "done"
           /\ hres[h] = FORCE_TRIGGER

\* the read of the store failed under a handler
C9_Witness ==
    \E h \in Handlers :
        /\ asr[HandlerTask(h)].pc = "raised"
        /\ asr[HandlerTask(h)].gets = 1
        /\ hres[h] = FORCE_TRIGGER

\* C10: a timer task that is over made one emission, with trigger_agent
\* set, for every batch it detached, unless the judgment came back false:
\* no internal failure discards a detached batch.
C10_FlushFailOpen ==
    \A t \in Timers :
        ( /\ tpc[t] = "done"
          /\ flushes[t] # <<>>
          /\ ~(asr[TimerTask(t)].pc = "returned" /\ ~Truthy(asr[TimerTask(t)].ret)) )
        => /\ Len(pushed[t]) = Len(flushes[t])
           /\ \A i \in 1..Len(pushed[t]) : pushed[t][i].trigger_agent

(***************************************************************************)
(* Batches and their timer tasks                                           *)
(***************************************************************************)
\* the timer tasks of conversation k that have not flushed yet: created,
\* sleeping (cancelled or not) or waiting for the lock
Outstanding(k) ==
    { t \in Timers : tpc[t] \in {"created", "sleeping", "lockwait"} /\ KeyOf(t) = k }

\* C11: a conversation has a batch in merge_tasks exactly when a timer task
\* of it is outstanding, and it never has more than one such task; the task
\* recorded with the batch is that one.
C11_BatchIffTimer ==
    \A k \in ChatKeys :
        /\ (k \in DOMAIN merge_tasks) <=> (Outstanding(k) # {})
        /\ Cardinality(Outstanding(k)) <= 1
        /\ k \in DOMAIN merge_tasks => tpc[merge_tasks[k].task] # "done"

\* the messages of sequence q, as a set
Range(q) == { q[i] : i \in 1..Len(q) }

\* C12: under complete takeover every in-scope message with a negative
\* judgment got BLOCK_ALL, whether it was judged on its own (merge mode
\* off) or as part of a merged batch that was judged false (merge mode on).
C12_TakeoverSuppresses ==
    cfg.ENABLE_COMPLETE_TAKEOVER =>
        /\ \A h \in Handlers :
               ( /\ hpc[h] = "done"
                 /\ asr[HandlerTask(h)].pc = "returned"
                 /\ asr[HandlerTask(h)].ret = PyFalse )
               => hres[h] = BLOCK_ALL
        /\ \A t \in Timers :
               ( /\ tpc[t] = "done"
                 /\ flushes[t] # <<>>
                 /\ asr[TimerTask(t)].pc = "returned"
                 /\ asr[TimerTask(t)].ret = PyFalse )
               => \A h \in Range(flushes[t][1].messages) : hres[h] = BLOCK_ALL

\* C13: with MESSAGE_MERGE_MAX_COUNT = N > 0, no batch that is flushed
\* holds more than N messages.
C13_BatchAtMostMax ==
    \A t \in Timers :
        \A i \in 1..Len(flushes[t]) :
            MaxCount > 0 => Len(flushes[t][i].messages) <= MaxCount

(***************************************************************************)
(* Properties of the Scope Filter                                          *)
(***************************************************************************)
\* C14: a message whose conversation kind is neither "private" nor "group"
\* (a missing kind included) is let through with None, whatever
\* ENABLE_PRIVATE, ENABLE_GROUP, the filter mode, the list and merge mode.
C14_UnknownKindAllowed ==
    \A h \in Handlers :
        (hpc[h] # "idle" /\ hch[h].channel_type \notin {"private", "group"})
        => /\ hpc[h] = "done"
           /\ hres[h] = None
           /\ asr[HandlerTask(h)].calls = 0
           /\ ~OpenedBatch(h)

\* a message without kind let through with both kinds enabled, an
\* allow-list naming its id and merge mode on
C14_Witness ==
    \E h \in Handlers :
        /\ hch[h].channel_type = None
        /\ hres[h] = None
        /\ cfg.ENABLE_PRIVATE
        /\ cfg.ENABLE_GROUP
        /\ cfg.GROUP_FILTER_MODE = ModeAllowList
        /\ cfg.GROUP_ID_LIST = <<Id123, Id456>>
        /\ MergeOn

StartsWith(s, prefix) ==
    Len(s) >= Len(prefix) /\ SubSeq(s, 1, Len(prefix)) = prefix

\* an id without its "group_" or "private_" prefix
StripPrefix(id) ==
    IF StartsWith(id, GroupPrefix) THEN SubSeq(id, Len(GroupPrefix) + 1, Len(id))
    ELSE IF StartsWith(id, PrivatePrefix)
         THEN SubSeq(id, Len(PrivatePrefix) + 1, Len(id))
         ELSE id

\* some entry of the list equals g once both have lost their prefix
Listed(c, g) ==
    \E i \in 1..Len(c.GROUP_ID_LIST) : StripPrefix(c.GROUP_ID_LIST[i]) = StripPrefix(g)

\* C15: a group message (group filtering enabled) goes on to the judgment
\* exactly when: the mode is disabled; or the mode is allow-list and some
\* list entry equals its id after both lost their prefix; or the mode is
\* deny-list and no list entry does.
C15_ListMatchesStripped ==
    \A h \in Handlers :
        (hpc[h] # "idle" /\ hch[h].channel_type = "group" /\ cfg.ENABLE_GROUP)
        => ( (hres[h] # None)
             <=> ( \/ cfg.GROUP_FILTER_MODE = ModeDisabled
                   \/ cfg.GROUP_FILTER_MODE = ModeAllowList
                        /\ Listed(cfg, hch[h].channel_id)
                   \/ cfg.GROUP_FILTER_MODE = ModeDenyList
                        /\ ~Listed(cfg, hch[h].channel_id) ) )

(***************************************************************************)
(* Properties of the Decision Cache                                        *)
(***************************************************************************)
\* what the store holds for the text of the call of task c
EntryKey(c) == CacheKey(Md5Hex(asr[c].text))
HasEntry(c) == EntryKey(c) \in DOMAIN store
Entry(c) == JsonLoads(store[EntryKey(c)])

\* the call of task c takes its step through get_cached_decision, and the
\* read of the store succeeds
ReadsCache(c) ==
    /\ asr[c].pc = "store_get"
    /\ asr'[c] # asr[c]
    /\ asr'[c].pc # "raised"

\* the call came back at once, with decision d, having asked nothing else
ServedFromCache(c, d) ==
    /\ asr'[c].pc = "returned"
    /\ asr'[c].ret = d
    /\ asr'[c].groups = asr[c].groups
    /\ asr'[c].lookups = asr[c].lookups
    /\ asr'[c].cls = asr[c].cls
    /\ asr'[c].sets = asr[c].sets

\* C16: a read that finds a decision (true or false) written at time T
\* returns it when now - T <= CACHE_EXPIRE_SECONDS and finds nothing (the
\* call goes on to the model group) when now - T > CACHE_EXPIRE_SECONDS; the
\* read leaves the store as it is.
C16_CacheExpiry ==
    [][\A c \in Tasks :
         (ReadsCache(c) /\ HasEntry(c) /\ Entry(c).decision \in {PyTrue, PyFalse})
         => /\ store' = store
            /\ now - Entry(c).timestamp <= CACHE_EXPIRE_SECONDS
                 => ServedFromCache(c, Entry(c).decision)
            /\ now - Entry(c).timestamp > CACHE_EXPIRE_SECONDS
                 => asr'[c].groups = asr[c].groups + 1]_vars

\* a call served from the cache at the last second of the window
C16_Witness ==
    \E c \in Tasks :
        /\ asr[c].pc = "returned"
        /\ asr[c].gets = 1
        /\ asr[c].groups = 0
        /\ HasEntry(c)
        /\ now - Entry(c).timestamp = CACHE_EXPIRE_SECONDS
        /\ asr[c].ret = Entry(c).decision

\* C19: once a judgment of a text has been cached, every call with the
\* same text whose read succeeds inside the expiry window comes back at
\* once with the cached decision, without the model group, the persona and
\* history stores or the classifier, whatever the conversation.
C19_CacheHitShortCircuits ==
    [][\A c \in Tasks :
         ( /\ ReadsCache(c)
           /\ HasEntry(c)
           /\ now - Entry(c).timestamp <= CACHE_EXPIRE_SECONDS )
         => ServedFromCache(c, Entry(c).decision)]_vars

(***************************************************************************)
(* Properties of the flush                                                 *)
(***************************************************************************)
\* the messages the timer tasks of conversation k have detached so far
Flushed(k) ==
    UNION { UNION { Range(flushes[t][i].messages) : i \in 1..Len(flushes[t]) } :
            t \in { u \in Timers : tpc[u] # "none" /\ KeyOf(u) = k } }

\* the messages of the batch conversation k has now
Buffered(k) ==
    IF k \in DOMAIN merge_tasks THEN Range(merge_tasks[k].messages) ELSE {}

\* every detached batch is apart from what comes later: none of its
\* messages is in the conversation's current batch, it is a stretch of the
\* offers in arrival order, and the first offer processed after it, if any,
\* opened a fresh batch with a timer task of its own; every offered message
\* is in a detached batch or in the current one
DetachedApart ==
    /\ \A t \in Timers : \A i \in 1..Len(flushes[t]) :
           LET k == KeyOf(t)
               log == offerLog[k]
               batch == flushes[t][i].messages
               last == IndexIn(log, batch[Len(batch)])
           IN  /\ Range(batch) \cap Buffered(k) = {}
               /\ batch = SubSeq(log, IndexIn(log, batch[1]), last)
               /\ Len(log) > last =>
                    /\ OpenedBatch(log[last + 1])
                    /\ log[last + 1] # t
    /\ \A k \in ChatKeys : Range(offerLog[k]) = Flushed(k) \cup Buffered(k)

\* C17: no step changes a batch that is already detached, and after every
\* step every detached batch is apart from what was offered after the
\* detach: later offers open a fresh batch with a new timer task and are
\* neither added to the detached batch nor lost.
C17_DetachIsAtomic ==
    [][ /\ \A t \in Timers : \A i \in 1..Len(flushes[t]) :
              /\ Len(flushes'[t]) >= i
              /\ flushes'[t][i] = flushes[t][i]
        /\ DetachedApart' ]_vars

\* a batch was detached and judged, and a later message of the same
\* conversation sits in a fresh batch of its own timer task
C17_Witness ==
    \E t \in Timers, h \in Handlers :
        /\ flushes[t] # <<>>
        /\ h # t
        /\ hpc[h] = "done"
        /\ hch[h].chat_key = KeyOf(t)
        /\ OpenedBatch(h)
        /\ KeyOf(t) \in DOMAIN merge_tasks
        /\ merge_tasks[KeyOf(t)].task = h
        /\ Len(merge_tasks[KeyOf(t)].messages) = 2

\* the judgment of the flush of timer task t has come back
Judged(t) == flushes[t] # <<>> /\ asr[TimerTask(t)].pc = "returned"

\* C18: a flush judged true makes exactly one push_system_message call,
\* for its conversation, with the merged transcript and trigger_agent set;
\* a flush judged otherwise makes none and its batch is gone; there is no
\* emission without a flush judged true.
C18_FlushOutcome ==
    \A t \in Timers :
        /\ (Judged(t) /\ tpc[t] = "done" /\ asr[TimerTask(t)].ret = PyTrue)
           => pushed[t] =
                << [chat_key |-> KeyOf(t),
                    count |-> Len(flushes[t][1].messages),
                    agent_messages |-> ExpectedTranscript(flushes[t][1].messages),
                    trigger_agent |-> TRUE] >>
        /\ (Judged(t) /\ asr[TimerTask(t)].ret # PyTrue)
           => /\ pushed[t] = <<>>
              /\ tpc[t] = "done"
              /\ Range(flushes[t][1].messages) \cap Buffered(KeyOf(t)) = {}
        /\ pushed[t] # <<>>
           => /\ Len(pushed[t]) = 1
              /\ Len(flushes[t]) = 1
              /\ Judged(t)
              /\ asr[TimerTask(t)].ret = PyTrue

\* one conversation's batch of two judged true and emitted, another batch
\* judged false and dropped
C18_Witness ==
    \E t \in Timers, u \in Timers :
        /\ Judged(t) /\ tpc[t] = "done"
        /\ asr[TimerTask(t)].ret = PyTrue
        /\ Len(pushed[t]) = 1
        /\ pushed[t][1].count = 2
        /\ Judged(u) /\ tpc[u] = "done"
        /\ asr[TimerTask(u)].ret = PyFalse
        /\ pushed[u] = <<>>

(***************************************************************************)
(* Properties of the per-key lock                                          *)
(***************************************************************************)
\* the tasks inside `async with lock` of conversation k across steps: a
\* flush that is judging or emitting (an offer never suspends inside)
Holders(k) ==
    { t \in Timers : tpc[t] \in {"judging", "emitting"} /\ KeyOf(t) = k }

\* the tasks suspended in acquire() of any lock, and those of the lock of k
Suspended ==
    { HandlerTask(h) : h \in { g \in Handlers : hpc[g] = "lockwait" } }
    \cup { TimerTask(t) : t \in { u \in Timers : tpc[u] = "lockwait" } }

WaitersOf(k) ==
    { merge_locks[k].waiters[i].task : i \in 1..Len(merge_locks[k].waiters) }

\* the conversation of a task
TaskKey(c) == hch[c[2]].chat_key

\* one holder per lock, and nobody waits but behind a task of the same
\* conversation: the holder, a waiter that was woken and has the lock next,
\* or a waiter that was cancelled and passes the wake-up on when it runs
LockDiscipline ==
    /\ \A k \in DOMAIN merge_locks :
           /\ Cardinality(Holders(k)) <= 1
           /\ merge_locks[k].locked <=> Holders(k) # {}
           /\ \A c \in WaitersOf(k) : TaskKey(c) = k /\ c \in Suspended
           /\ \A i \in 1..Len(merge_locks[k].waiters) :
                  merge_locks[k].waiters[i].st = "pending"
                  => \/ merge_locks[k].locked
                     \/ \E j \in 1..(i - 1) :
                            merge_locks[k].waiters[j].st \in {"done", "cancelled"}
    /\ \A c \in Suspended :
           /\ TaskKey(c) \in DOMAIN merge_locks
           /\ c \in WaitersOf(TaskKey(c))

\* C20: for each conversation the critical sections never overlap: its lock
\* has at most one holder, and no step adds to, creates or detaches its
\* batch while a flush of it is inside the lock; a task waits only for the
\* lock of its own conversation and only behind a task of that
\* conversation (its holder, or a waiter ahead that was woken or cancelled),
\* so offers and flushes of other conversations go on.
C20_PerKeyExclusion ==
    [][ /\ LockDiscipline'
        /\ \A k \in ChatKeys :
               (offerLog'[k] # offerLog[k] \/ Buffered(k)' # Buffered(k))
               => Holders(k) = {} ]_vars

\* while a flush of one conversation is judging and an offer of that
\* conversation waits for its lock, a later message of another conversation
\* has been offered and has opened its batch
C20_Witness ==
    \E t \in Timers, h \in Handlers, g \in Handlers :
        /\ tpc[t] = "judging"
        /\ hpc[h] = "lockwait"
        /\ hch[h].chat_key = KeyOf(t)
        /\ g > h
        /\ hpc[g] = "done"
        /\ hch[g].chat_key # KeyOf(t)
        /\ OpenedBatch(g)
        /\ hres[g] = BLOCK_TRIGGER

(***************************************************************************)
(* Properties of the parsing of the classifier's answer                    *)
(***************************************************************************)
\* the answer holds a "{" with a "}" somewhere behind it
HasObject(content) ==
    \E i, j \in 1..Len(content) : i < j /\ content[i] = "{" /\ content[j] = "}"

\* what the pattern search takes for the object: from the first "{" to the
\* last "}"
Matched(content) ==
    LET first == CHOOSE i \in 1..Len(content) :
                     /\ content[i] = "{"
                     /\ \A k \in 1..(i - 1) : content[k] # "{"
        last == CHOOSE j \in 1..Len(content) :
                    /\ content[j] = "}"
                    /\ \A k \in (j + 1)..Len(content) : content[k] # "}"
    IN  [n \in 1..(last - first + 1) |-> content[first + n - 1]]

\* the matched text is one JSON object: nothing but members between its braces
Parsable(m) == \A n \in 2..(Len(m) - 1) : m[n] \in MemberTokens

\* the values the should_reply members of the object give, in order
FieldValues(m) ==
    SelectSeq(m, LAMBDA tok : tok \in {"sr:true", "sr:false", "sr:null"})

FieldValue(m) ==
    LET last == FieldValues(m)[Len(FieldValues(m))] IN
    CASE last = "sr:true" -> PyTrue
      [] last = "sr:false" -> PyFalse
      [] last = "sr:null" -> None

\* no object, or an object that cannot be parsed, or one without the field
Unparsable(content) == HasObject(content) /\ ~Parsable(Matched(content))
Malformed(content) ==
    \/ ~HasObject(content)
    \/ ~Parsable(Matched(content))
    \/ FieldValues(Matched(content)) = <<>>

\* the decision the answer stands for
DecisionOf(content) ==
    IF Malformed(content) THEN PyTrue ELSE FieldValue(Matched(content))

\* the call of task c received an answer from the classifier
Answered(c) == asr[c].content # NoResponse

\* C21: once the classifier has answered, the decision is True when the
\* answer holds no JSON object, or an object without the should_reply field,
\* or a match that cannot be parsed, and is the value of the field when the
\* field is present.  An answer whose match cannot be parsed ends the call
\* with True and nothing cached; any other answer is the decision that is
\* cached and returned (the call returns True instead only when the write to
\* the cache fails).  A malformed answer never ends in anything but True.
C21_ParsedDecision ==
    \A c \in Tasks :
        Answered(c) =>
            LET a == asr[c]
                d == DecisionOf(a.content)
            IN  /\ a.pc \in {"store_set", "returned"}
                /\ a.pc = "store_set" =>
                       /\ ~Unparsable(a.content)
                       /\ a.should_reply = d
                /\ a.pc = "returned" /\ Unparsable(a.content) =>
                       /\ a.ret = PyTrue
                       /\ a.sets = 0
                       /\ ~HasEntry(c)
                /\ a.pc = "returned" /\ ~Unparsable(a.content) =>
                       /\ a.sets = 1
                       /\ IF HasEntry(c)
                          THEN a.ret = d /\ Entry(c).decision = d
                          ELSE a.ret = PyTrue
                /\ a.pc = "returned" /\ Malformed(a.content) => a.ret = PyTrue

\* the classifier answered `{ sr:false } }`: the match runs to the last brace
\* and cannot be parsed, and the call returned True without caching
C21_Witness ==
    \E c \in Tasks :
        /\ asr[c].content = <<"{", "sr:false", "}", "}">>
        /\ asr[c].pc = "returned"
        /\ asr[c].ret = PyTrue
        /\ ~HasEntry(c)

(***************************************************************************)
(* Properties of the lock during a flush                                   *)
(***************************************************************************)
\* the flush of timer task t is between its detach and its end
Detached(t) == flushes[t] # <<>> /\ tend[t] = "running"

\* the flushes of conversation k that are between detach and end
Flushing(k) == { t \in Timers : tpc[t] # "none" /\ KeyOf(t) = k /\ Detached(t) }

\* handle_with_merge is running for the message of h: in scope under merge
\* mode, and the Gate has no signal yet
Offering(h) ==
    /\ hpc[h] # "idle"
    /\ hres[h] = "pending"
    /\ MergeOn

\* while a flush of a conversation is between detach and end, its lock is
\* taken and no waiter has been woken, the flush is judging or emitting, and
\* every offer of the conversation under way is suspended in acquire()
FlushKeepsLock ==
    \A k \in ChatKeys :
        Flushing(k) # {} =>
            /\ k \in DOMAIN merge_locks
            /\ merge_locks[k].locked
            /\ \A i \in 1..Len(merge_locks[k].waiters) :
                   merge_locks[k].waiters[i].st # "done"
            /\ Flushing(k) = Holders(k)
            /\ \A h \in Handlers :
                   (Offering(h) /\ hch[h].chat_key = k)
                   => /\ hpc[h] = "lockwait"
                      /\ HandlerTask(h) \in WaitersOf(k)

\* C22: process_merged_messages holds the lock of its conversation from the
\* detach to its end, through the judgment and the emission: all that time
\* every offer of the conversation is suspended on the lock, and no offer of
\* the conversation gets its signal in a step that starts or ends in such a
\* state (BLOCK_TRIGGER comes only after the flush is over).
C22_FlushHoldsLock ==
    [][ /\ FlushKeepsLock'
        /\ \A h \in Handlers :
               (/\ MergeOn
                /\ hres[h] = "pending"
                /\ hres'[h] # "pending"
                /\ InScope(cfg, hch'[h]))
               => /\ hres'[h] = BLOCK_TRIGGER
                  /\ \A k \in ChatKeys :
                         hch'[h].chat_key = k
                         => Flushing(k) = {} /\ Flushing(k)' = {} ]_vars

\* a flush judged true is about to emit, and an offer of its conversation is
\* still waiting for the lock
C22_Witness ==
    \E t \in Timers, h \in Handlers :
        /\ tpc[t] = "emitting"
        /\ Detached(t)
        /\ hch[h].chat_key = KeyOf(t)
        /\ Offering(h)
        /\ hpc[h] = "lockwait"

====
